---- MODULE Spec2Model ----
(***************************************************************************)
(* Model of scripts/find_large_rs.py: main(max_size) scans the tree under  *)
(* the anchor directory for *.rs files, filters them, counts lines and     *)
(* prints the files at or above the threshold, largest first.              *)
(*                                                                         *)
(* Strings are sequences of one-character strings, so that substring       *)
(* tests, comparisons, formatting and line splitting are computed.  A path *)
(* is the sequence of its components (pathlib's parts).  Literal text of   *)
(* an f-string is kept as one token of the output stream.                  *)
(***************************************************************************)
EXTENDS Integers, Sequences, FiniteSets

VARIABLES root, fs, pc, arg, max_size, rust_files, idx, large_files, reads, out

vars == <<root, fs, pc, arg, max_size, rust_files, idx, large_files, reads, out>>

----------------------------------------------------------------------------
(* Bounds of the model *)

MaxFiles == 3    \* files under the anchor
MaxLoc == 2      \* lines of a file's content in Spec
MaxLen == 3      \* characters of a file's content in SpecLines

----------------------------------------------------------------------------
(* Names *)

target == <<"t", "a", "r", "g", "e", "t">>
test == <<"t", "e", "s", "t">>
test_rs == <<"t", "e", "s", "t", ".", "r", "s">>
bindings_rs == <<"b", "i", "n", "d", "i", "n", "g", "s", ".", "r", "s">>
dot_rs == <<".", "r", "s">>

\* def main(max_size: int = 500)
DefaultMaxSize == 500

\* the positional arguments of a call of main: none, or the threshold
NoArg == <<>>
NoError == "None"

----------------------------------------------------------------------------
(* Strings *)

Range(s) == {s[k] : k \in 1..Len(s)}

Min(a, b) == IF a <= b THEN a ELSE b

\* ord(c) of the characters of the model's paths
Ord(c) ==
    CASE c = "." -> 46 [] c = "/" -> 47 [] c = "_" -> 95
      [] c = "a" -> 97 [] c = "b" -> 98 [] c = "c" -> 99 [] c = "d" -> 100
      [] c = "e" -> 101 [] c = "g" -> 103 [] c = "i" -> 105 [] c = "n" -> 110
      [] c = "o" -> 111 [] c = "p" -> 112 [] c = "r" -> 114 [] c = "s" -> 115
      [] c = "t" -> 116 [] c = "w" -> 119 [] c = "x" -> 120 [] c = "y" -> 121

\* str.__lt__: lexicographic by code point, a proper prefix first
StrLess(a, b) ==
    \E k \in 1..(Min(Len(a), Len(b)) + 1) :
        /\ \A j \in 1..(k - 1) : a[j] = b[j]
        /\ \/ k = Len(a) + 1 /\ k <= Len(b)
           \/ k <= Len(a) /\ k <= Len(b) /\ Ord(a[k]) < Ord(b[k])

\* sub in s
Contains(s, sub) ==
    \E k \in 0..(Len(s) - Len(sub)) : SubSeq(s, k + 1, k + Len(sub)) = sub

EndsWith(s, suf) ==
    /\ Len(suf) <= Len(s)
    /\ SubSeq(s, Len(s) - Len(suf) + 1, Len(s)) = suf

DigitChar(d) ==
    CASE d = 0 -> "0" [] d = 1 -> "1" [] d = 2 -> "2" [] d = 3 -> "3"
      [] d = 4 -> "4" [] d = 5 -> "5" [] d = 6 -> "6" [] d = 7 -> "7"
      [] d = 8 -> "8" [] d = 9 -> "9"

RECURSIVE Digits(_)
Digits(n) ==
    IF n < 10 THEN <<DigitChar(n)>>
    ELSE Digits(n \div 10) \o <<DigitChar(n % 10)>>

\* str(n), as an f-string field formats an int
Str(n) == IF n < 0 THEN <<"-">> \o Digits(0 - n) ELSE Digits(n)

\* variant of RJust: the field padded on the right (format(s, "<w"))
LJust(s, w) ==
    IF Len(s) >= w THEN s ELSE s \o [k \in 1..(w - Len(s)) |-> " "]

\* format(s, ">w"): right-aligned in a field of w, never truncated
RJust(s, w) ==
    IF Len(s) >= w THEN s ELSE [k \in 1..(w - Len(s)) |-> " "] \o s

----------------------------------------------------------------------------
(* Paths *)

Name(path) == path[Len(path)]

\* the parts joined by the separator
RECURSIVE Join(_)
Join(p) ==
    IF Len(p) = 0 THEN <<>>
    ELSE IF Len(p) = 1 THEN p[1]
    ELSE Join(SubSeq(p, 1, Len(p) - 1)) \o <<"/">> \o p[Len(p)]

\* variant of PathLess: the paths compared as strings (sorted(map(str, ...)))
PathLessByString(p, q) == StrLess(Join(p), Join(q))

\* PurePath.__lt__: the parts compared as sequences, each part as a string
PathLess(p, q) ==
    \E k \in 1..(Min(Len(p), Len(q)) + 1) :
        /\ \A j \in 1..(k - 1) : p[j] = q[j]
        /\ \/ k = Len(p) + 1 /\ k <= Len(q)
           \/ k <= Len(p) /\ k <= Len(q) /\ StrLess(p[k], q[k])

\* sorted(S) for a set of distinct paths
RECURSIVE SortedPaths(_)
SortedPaths(S) ==
    IF S = {} THEN <<>>
    ELSE LET m == CHOOSE x \in S : \A y \in S \ {x} : PathLess(x, y)
         IN <<m>> \o SortedPaths(S \ {m})

\* root.rglob("*.rs"): the entries under root whose name matches *.rs
RGlob(r, tree) == {r \o rel : rel \in {q \in DOMAIN tree : EndsWith(Name(q), dot_rs)}}

\* path.relative_to(root)
RelativeTo(path, r) == SubSeq(path, Len(r) + 1, Len(path))

\* str(path) of a relative path: the parts joined by the separator
PathStr(p) == IF Len(p) = 0 THEN <<".">> ELSE Join(p)

\* variant of Excluded: without the bindings.rs rule
ExcludedNoBindings(path) ==
    \/ target \in Range(path)
    \/ test \in Range(path)
    \/ Contains(Name(path), test_rs)

\* variant of Excluded: the directory rules on the path relative to the anchor
ExcludedRelative(path) ==
    \/ target \in Range(RelativeTo(path, root))
    \/ test \in Range(RelativeTo(path, root))
    \/ Contains(Name(path), test_rs)
    \/ Name(path) = bindings_rs

\* the condition of the if that skips a file
Excluded(path) ==
    \/ target \in Range(path)
    \/ test \in Range(path)
    \/ Contains(Name(path), test_rs)
    \/ Name(path) = bindings_rs

----------------------------------------------------------------------------
(* Reading and counting lines *)

\* text mode with newline=None: "\r\n" and "\r" are read as "\n"
RECURSIVE ReadText(_)
ReadText(raw) ==
    IF raw = <<>> THEN <<>>
    ELSE IF Head(raw) = "\r"
         THEN <<"\n">> \o ReadText(IF Len(raw) >= 2 /\ raw[2] = "\n"
                                   THEN Tail(Tail(raw)) ELSE Tail(raw))
         ELSE <<Head(raw)>> \o ReadText(Tail(raw))

\* the line boundaries of str.splitlines ("\f" stands for the other ones:
\* \v, \x1c, \x1d, \x1e, \x85, \u2028, \u2029)
IsLineBreak(c) == c \in {"\n", "\r", "\f"}

\* str.splitlines(): the lines without their line breaks
RECURSIVE SplitLines(_)
SplitLines(s) ==
    IF s = <<>> THEN <<>>
    ELSE LET brk == {k \in 1..Len(s) : IsLineBreak(s[k])}
         IN IF brk = {} THEN <<s>>
            ELSE LET k == CHOOSE b \in brk : \A c \in brk : b <= c
                     e == IF s[k] = "\r" /\ k < Len(s) /\ s[k + 1] = "\n"
                          THEN k + 1 ELSE k
                 IN <<SubSeq(s, 1, k - 1)>> \o SplitLines(SubSeq(s, e + 1, Len(s)))

\* variant of LineCount: the newline characters counted (text.count("\n"))
LineCountNewlines(raw) ==
    Cardinality({k \in 1..Len(ReadText(raw)) : ReadText(raw)[k] = "\n"})

\* len(path.read_text(encoding="utf-8").splitlines())
LineCount(raw) == Len(SplitLines(ReadText(raw)))

\* variant of Qualifies: the comparison inverted
QualifiesInverted(loc, threshold) == loc <= threshold

\* loc >= max_size
Qualifies(loc, threshold) == loc >= threshold

----------------------------------------------------------------------------
(* The final sort *)

\* variant of SortKey: ascending (key=lambda x: x[1])
SortKeyAscending(x) == x.loc

\* key=lambda x: -x[1]
SortKey(x) == 0 - x.loc

\* list.sort is stable: an entry goes after the entries whose key is not larger
InsertByKey(s, e) ==
    LET k == Cardinality({j \in 1..Len(s) : SortKey(s[j]) <= SortKey(e)})
    IN SubSeq(s, 1, k) \o <<e>> \o SubSeq(s, k + 1, Len(s))

RECURSIVE SortBySize(_)
SortBySize(l) ==
    IF l = <<>> THEN <<>>
    ELSE InsertByKey(SortBySize(SubSeq(l, 1, Len(l) - 1)), l[Len(l)])

----------------------------------------------------------------------------
(* Printing *)

\* print(s): s and a newline on standard output
PrintLine(stream, s) == stream \o s \o <<"\n">>

\* variant of EmptyLine: the default threshold written into the text
EmptyLineDefault(threshold) ==
    <<"No Rust files with ">> \o Str(DefaultMaxSize) \o <<"+ LOC found.">>

EmptyLine(threshold) ==
    <<"No Rust files with ">> \o Str(threshold) \o <<"+ LOC found.">>

HeaderLine(threshold, n) ==
    <<"Rust files with ">> \o Str(threshold) \o <<"+ LOC (">> \o Str(n)
        \o <<" files):", "\n">>

EntryLine(e) ==
    <<"  ">> \o RJust(Str(e.loc), 5) \o <<" lines  ">> \o PathStr(e.path)

RECURSIVE PrintEntries(_, _)
PrintEntries(stream, l) ==
    IF l = <<>> THEN stream
    ELSE PrintEntries(PrintLine(stream, EntryLine(Head(l))), Tail(l))

----------------------------------------------------------------------------
(* The inputs *)

S_a == <<"a">>
S_ax == <<"a", ".", "x">>
S_src == <<"s", "r", "c">>
S_w == <<"w">>
S_repo == <<"r", "e", "p", "o">>
S_slash == <<"/">>

\* anchors: a plain one, one under a directory named target, one named test
Roots ==
    { <<S_slash, S_w, S_repo>>,
      <<S_slash, target, S_repo>>,
      <<S_slash, S_w, test>> }

\* paths under the anchor, relative to it
Paths ==
    { <<<<"a", ".", "r", "s">>>>,
      <<S_a, <<"b", ".", "r", "s">>>>,
      <<S_ax, <<"c", ".", "r", "s">>>>,
      <<S_src, target, <<"a", ".", "r", "s">>>>,
      <<test, <<"a", ".", "r", "s">>>>,
      <<<<"a", "_", "t", "e", "s", "t", ".", "r", "s">>>>,
      <<bindings_rs>>,
      <<<<"t", "e", "s", "t", ".", "r", "s", ".", "r", "s">>>> }

\* n lines "a", each ended by a newline
Text(n) == [k \in 1..(2 * n) |-> IF k % 2 = 1 THEN "a" ELSE "\n"]

Readable(raw) == [exc |-> NoError, raw |-> raw]
Unreadable(e) == [exc |-> e, raw |-> <<>>]

\* what reading a file gives: its content, or the exception raised
Datas == {Unreadable("PermissionError")} \cup {Readable(Text(n)) : n \in 1..MaxLoc}

Args == {NoArg, <<0>>, <<2>>}

Trees == UNION {[S -> Datas] : S \in {T \in SUBSET Paths : Cardinality(T) <= MaxFiles}}

----------------------------------------------------------------------------
(* The program *)

Init ==
    /\ root \in Roots
    /\ fs \in Trees
    /\ pc = "call"
    /\ arg = NoArg
    /\ max_size = DefaultMaxSize
    /\ rust_files = <<>>
    /\ idx = 1
    /\ large_files = <<>>
    /\ reads = {}
    /\ out = <<>>

\* main(a): the anchor's *.rs files, sorted; the result list is empty
Main(a) ==
    /\ pc = "call"
    /\ arg' = a
    /\ max_size' = IF a = NoArg THEN DefaultMaxSize ELSE a[1]
    /\ rust_files' = SortedPaths(RGlob(root, fs))
    /\ idx' = 1
    /\ large_files' = <<>>
    /\ pc' = "scan"
    /\ UNCHANGED <<root, fs, reads, out>>

Current == rust_files[idx]

\* an excluded path: continue
SkipExcluded ==
    /\ pc = "scan"
    /\ idx <= Len(rust_files)
    /\ Excluded(Current)
    /\ idx' = idx + 1
    /\ UNCHANGED <<root, fs, pc, arg, max_size, rust_files, large_files, reads, out>>

\* the try block runs to its end
ReadFile ==
    /\ pc = "scan"
    /\ idx <= Len(rust_files)
    /\ ~Excluded(Current)
    /\ fs[RelativeTo(Current, root)].exc = NoError
    /\ LET loc == LineCount(fs[RelativeTo(Current, root)].raw)
       IN large_files' =
              IF Qualifies(loc, max_size)
              THEN Append(large_files, [path |-> RelativeTo(Current, root), loc |-> loc])
              ELSE large_files
    /\ reads' = reads \cup {Current}
    /\ idx' = idx + 1
    /\ UNCHANGED <<root, fs, pc, arg, max_size, rust_files, out>>

\* variant of ReadFails: no except clause, the exception leaves main
ReadFailsAborts ==
    /\ pc = "scan"
    /\ idx <= Len(rust_files)
    /\ ~Excluded(Current)
    /\ fs[RelativeTo(Current, root)].exc # NoError
    /\ reads' = reads \cup {Current}
    /\ pc' = "done"
    /\ UNCHANGED <<root, fs, arg, max_size, rust_files, idx, large_files, out>>

\* read_text raises: except Exception: pass
ReadFails ==
    /\ pc = "scan"
    /\ idx <= Len(rust_files)
    /\ ~Excluded(Current)
    /\ fs[RelativeTo(Current, root)].exc # NoError
    /\ reads' = reads \cup {Current}
    /\ idx' = idx + 1
    /\ UNCHANGED <<root, fs, pc, arg, max_size, rust_files, large_files, out>>

\* after the loop: sort, nothing qualifies, one line, return
ReportEmpty ==
    /\ pc = "scan"
    /\ idx > Len(rust_files)
    /\ SortBySize(large_files) = <<>>
    /\ large_files' = SortBySize(large_files)
    /\ out' = PrintLine(out, EmptyLine(max_size))
    /\ pc' = "done"
    /\ UNCHANGED <<root, fs, arg, max_size, rust_files, idx, reads>>

\* after the loop: sort, the header and one line per entry
ReportFiles ==
    /\ pc = "scan"
    /\ idx > Len(rust_files)
    /\ SortBySize(large_files) # <<>>
    /\ large_files' = SortBySize(large_files)
    /\ out' = PrintEntries(PrintLine(out, HeaderLine(max_size, Len(large_files'))),
                           large_files')
    /\ pc' = "done"
    /\ UNCHANGED <<root, fs, arg, max_size, rust_files, idx, reads>>

Next ==
    \/ \E a \in Args : Main(a)
    \/ SkipExcluded
    \/ ReadFile
    \/ ReadFails
    \/ ReportEmpty
    \/ ReportFiles

Spec == Init /\ [][Next]_vars

----------------------------------------------------------------------------
(* Line counting on every short content: one file whose content ranges    *)
(* over the strings of at most MaxLen characters, beside an excluded file   *)
(* and a file that is no *.rs file.                                        *)

Alphabet == {"a", "\n", "\r", "\f"}

LineContents == UNION {[1..n -> Alphabet] : n \in 0..MaxLen}

P_plain == <<<<"a", ".", "r", "s">>>>
P_test == <<<<"a", "_", "t", "e", "s", "t", ".", "r", "s">>>>
P_other == <<<<"a", ".", "p", "y">>>>

InitLines ==
    /\ root = <<S_slash, S_w, S_repo>>
    /\ \E d \in {Readable(c) : c \in LineContents} \cup {Unreadable("UnicodeDecodeError")} :
           fs = [p \in {P_plain, P_test, P_other} |->
                    IF p = P_plain THEN d ELSE Readable(Text(1))]
    /\ pc = "call"
    /\ arg = NoArg
    /\ max_size = DefaultMaxSize
    /\ rust_files = <<>>
    /\ idx = 1
    /\ large_files = <<>>
    /\ reads = {}
    /\ out = <<>>

SpecLines == InitLines /\ [][Next]_vars

----------------------------------------------------------------------------
(* Vocabulary of the properties *)

Entries == {large_files[k] : k \in 1..Len(large_files)}

\* the entry of the result list for the file at relative path p, if any
EntriesOf(p) == {k \in 1..Len(large_files) : large_files[k].path = p}

\* the files that were read without an exception
ReadOk == {p \in reads : fs[RelativeTo(p, root)].exc = NoError}

\* newline characters, plus one for a last line that no newline ends
NewlineCount(raw) ==
    Cardinality({k \in 1..Len(raw) : raw[k] = "\n"})
        + (IF raw # <<>> /\ raw[Len(raw)] # "\n" THEN 1 ELSE 0)

\* line boundaries ("\n", "\r\n" as one, "\r", "\f"), plus one for a last
\* line that no boundary ends
BoundaryCount(raw) ==
    Cardinality({k \in 1..Len(raw) :
                    \/ raw[k] \in {"\n", "\f"}
                    \/ raw[k] = "\r" /\ ~(k < Len(raw) /\ raw[k + 1] = "\n")})
        + (IF raw # <<>> /\ raw[Len(raw)] \notin {"\n", "\r", "\f"} THEN 1 ELSE 0)

\* at the end of the run, every file read is listed with the count n(raw) when
\* that count reaches the threshold, and is not listed otherwise
CountedAs(n(_)) ==
    pc = "done" =>
        \A p \in ReadOk :
            LET rel == RelativeTo(p, root)
                c == n(fs[rel].raw)
            IN IF c >= max_size
               THEN \E k \in EntriesOf(rel) : large_files[k].loc = c
               ELSE EntriesOf(rel) = {}

\* the exclusion rules as the specification words them
HasComponent(p, name) == \E k \in 1..Len(p) : p[k] = name

\* "test" immediately before the extension: the name is <prefix>test.rs
TestBeforeExtension(name) ==
    /\ Len(name) >= Len(test) + Len(dot_rs)
    /\ SubSeq(name, Len(name) - 6, Len(name) - 3) = test
    /\ SubSeq(name, Len(name) - 2, Len(name)) = dot_rs

MatchesRule(p) ==
    \/ HasComponent(p, target)
    \/ HasComponent(p, test)
    \/ TestBeforeExtension(Name(p))
    \/ Name(p) = bindings_rs

\* standard output, line by line
OutBreaks == {k \in 1..Len(out) : out[k] = "\n"}

NumOutLines == Cardinality(OutBreaks)

BreakAt(j) == CHOOSE k \in OutBreaks : Cardinality({m \in OutBreaks : m < k}) = j - 1

OutLine(j) == SubSeq(out, (IF j = 1 THEN 1 ELSE BreakAt(j - 1) + 1), BreakAt(j) - 1)

\* decimal numerals
IsDigit(c) == c \in {"0", "1", "2", "3", "4", "5", "6", "7", "8", "9"}

DigitValue(c) ==
    CASE c = "0" -> 0 [] c = "1" -> 1 [] c = "2" -> 2 [] c = "3" -> 3
      [] c = "4" -> 4 [] c = "5" -> 5 [] c = "6" -> 6 [] c = "7" -> 7
      [] c = "8" -> 8 [] c = "9" -> 9

RECURSIVE ParseNat(_)
ParseNat(s) ==
    IF s = <<>> THEN 0
    ELSE 10 * ParseNat(SubSeq(s, 1, Len(s) - 1)) + DigitValue(s[Len(s)])

\* s is the decimal numeral of n
IsDecimal(s, n) ==
    /\ s # <<>>
    /\ \A k \in 1..Len(s) : IsDigit(s[k])
    /\ Len(s) > 1 => s[1] # "0"
    /\ ParseNat(s) = n

\* field shows n right-aligned: blanks, then the numeral, 5 wide or wider
RightAligned(field, n) ==
    \E d \in 1..Len(field) :
        /\ IsDecimal(SubSeq(field, Len(field) - d + 1, Len(field)), n)
        /\ \A k \in 1..(Len(field) - d) : field[k] = " "
        /\ Len(field) = (IF d > 5 THEN d ELSE 5)

\* t is the text of the path with these parts: the parts, "/" between them
IsPathText(t, parts) ==
    LET seps == {k \in 1..Len(t) : t[k] = "/"}
        sep(j) == IF j = 0 THEN 0
                  ELSE IF j = Len(parts) THEN Len(t) + 1
                  ELSE CHOOSE k \in seps : Cardinality({m \in seps : m < k}) = j - 1
    IN /\ parts # <<>>
       /\ Cardinality(seps) = Len(parts) - 1
       /\ \A j \in 1..Len(parts) : SubSeq(t, sep(j - 1) + 1, sep(j) - 1) = parts[j]

\* line is the report's line of entry e
EntryShown(line, e) ==
    \E m \in 2..Len(line) :
        /\ line[1] = "  "
        /\ line[m] = " lines  "
        /\ RightAligned(SubSeq(line, 2, m - 1), e.loc)
        /\ IsPathText(SubSeq(line, m + 1, Len(line)), e.path)

\* the line count an entry line shows
ShownCount(line) ==
    LET m == CHOOSE k \in 1..Len(line) : line[k] = " lines  "
    IN ParseNat(SelectSeq(SubSeq(line, 2, m - 1), IsDigit))

\* the text of an absolute path
AbsStr(path) == <<"/">> \o Join(SubSeq(path, 2, Len(path)))

\* a < b, lexicographically by code point with the separator before all others
OrdSepFirst(c) == IF c = "/" THEN 0 ELSE Ord(c)

LessSepFirst(a, b) ==
    \E k \in 1..(Min(Len(a), Len(b)) + 1) :
        /\ \A j \in 1..(k - 1) : a[j] = b[j]
        /\ \/ k = Len(a) + 1 /\ k <= Len(b)
           \/ k <= Len(a) /\ k <= Len(b) /\ OrdSepFirst(a[k]) < OrdSepFirst(b[k])

\* the position of a path in the enumeration
PositionOf(path) == CHOOSE j \in 1..Len(rust_files) : rust_files[j] = path

\* main on a tree whose files are all readable: what it prints
RECURSIVE CollectReadable(_, _, _, _)
CollectReadable(paths, r, tree, threshold) ==
    IF paths = <<>> THEN <<>>
    ELSE LET rel == RelativeTo(Head(paths), r)
             loc == LineCount(tree[rel].raw)
             rest == CollectReadable(Tail(paths), r, tree, threshold)
         IN IF Excluded(Head(paths)) \/ ~Qualifies(loc, threshold) THEN rest
            ELSE <<[path |-> rel, loc |-> loc]>> \o rest

ReportOf(r, tree, threshold) ==
    LET l == SortBySize(CollectReadable(SortedPaths(RGlob(r, tree)), r, tree, threshold))
    IN IF l = <<>> THEN PrintLine(<<>>, EmptyLine(threshold))
       ELSE PrintEntries(PrintLine(<<>>, HeaderLine(threshold, Len(l))), l)

\* the tree without the files whose read fails
ReadableTree == [p \in {q \in DOMAIN fs : fs[q].exc = NoError} |-> fs[p]]

----------------------------------------------------------------------------
(* C1 *)

\* C1: at every point of the scan and when the report is printed, every entry
\* of the result list has a line count at or above the threshold.
C1_AtLeastThreshold ==
    \A k \in 1..Len(large_files) : large_files[k].loc >= max_size

\* the report lists a file exactly at the threshold and leaves out a file that
\* was read and is below it
C1_Witness ==
    /\ pc = "done"
    /\ \E e \in Entries : e.loc = max_size
    /\ \E p \in ReadOk : EntriesOf(RelativeTo(p, root)) = {}

----------------------------------------------------------------------------
(* C2 *)

\* C2: the printed result list is sorted descending by line count: of two
\* consecutive entries, and of the two lines printed for them, the earlier one
\* has the larger or equal count, and sorting the list again changes nothing.
C2_SortedDescending ==
    pc = "done" =>
        /\ \A k \in 1..(Len(large_files) - 1) :
               /\ large_files[k].loc >= large_files[k + 1].loc
               /\ ShownCount(OutLine(k + 2)) >= ShownCount(OutLine(k + 3))
        /\ SortBySize(large_files) = large_files

\* the larger file was enumerated after the smaller one and is printed first
C2_Witness ==
    /\ pc = "done"
    /\ Len(large_files) >= 2
    /\ large_files[1].loc > large_files[2].loc
    /\ PositionOf(root \o large_files[2].path) < PositionOf(root \o large_files[1].path)

----------------------------------------------------------------------------
(* C3 *)

\* C3: no file matching one of the four exclusion rules (a component "target",
\* a component "test", a name <prefix>test.rs, the name bindings.rs) is ever in
\* the result list, whatever its line count.
C3_NoExcludedFile ==
    \A e \in Entries : ~MatchesRule(root \o e.path)

\* the report lists a file, while a file under src/target and a file named
\* <prefix>test.rs, both readable and at or above the threshold, are left out
C3_Witness ==
    /\ pc = "done"
    /\ large_files # <<>>
    /\ \E p, q \in DOMAIN fs :
           /\ Len(p) = 3 /\ HasComponent(p, target)
           /\ Len(q) = 1 /\ TestBeforeExtension(Name(q))
           /\ \A f \in {p, q} :
                  fs[f].exc = NoError /\ LineCount(fs[f].raw) >= max_size

----------------------------------------------------------------------------
(* C4 *)

\* the *.rs files that match no exclusion rule, are readable and have a line
\* count at or above the threshold
Surviving ==
    {p \in DOMAIN fs :
        /\ EndsWith(Name(p), dot_rs)
        /\ ~MatchesRule(root \o p)
        /\ fs[p].exc = NoError
        /\ LineCount(fs[p].raw) >= max_size}

\* C4: the result list holds exactly the surviving files at or above the
\* threshold (the comparison is inclusive), each once, with its line count.
C4_ExactlySurviving ==
    pc = "done" =>
        /\ \A p \in Surviving :
               /\ Cardinality(EntriesOf(p)) = 1
               /\ \A k \in EntriesOf(p) : large_files[k].loc = LineCount(fs[p].raw)
        /\ \A e \in Entries : e.path \in Surviving

----------------------------------------------------------------------------
(* C5 *)

\* C5: a read failure neither aborts the scan nor shows: the failing file is
\* not listed, the list holds exactly the files read so far that qualify, each
\* once, the scan runs to the end of the enumeration, and the report is the
\* report of the same tree without the failing files.
C5_ReadFailureSkipped ==
    /\ \A p \in reads \ ReadOk : EntriesOf(RelativeTo(p, root)) = {}
    /\ {e.path : e \in Entries}
           = {RelativeTo(p, root) : p \in {q \in ReadOk :
                 LineCount(fs[RelativeTo(q, root)].raw) >= max_size}}
    /\ \A e \in Entries : Cardinality(EntriesOf(e.path)) = 1
    /\ pc = "done" =>
           /\ idx = Len(rust_files) + 1
           /\ out = ReportOf(root, ReadableTree, max_size)

\* a file's read failed after a file was listed, and a file enumerated after
\* the failing one is listed too
C5_Witness ==
    /\ pc = "done"
    /\ \E p \in reads \ ReadOk : \E q, r \in ReadOk :
           /\ PositionOf(q) < PositionOf(p) /\ PositionOf(p) < PositionOf(r)
           /\ EntriesOf(RelativeTo(q, root)) # {}
           /\ EntriesOf(RelativeTo(r, root)) # {}

----------------------------------------------------------------------------
(* C6 *)

\* C6: when no file qualifies, main prints exactly one line,
\* "No Rust files with <threshold>+ LOC found.", the threshold being the
\* argument, or 500 without an argument, and returns.
C6_EmptyReport ==
    (pc = "done" /\ large_files = <<>>) =>
        /\ max_size = (IF arg = NoArg THEN 500 ELSE arg[1])
        /\ NumOutLines = 1
        /\ out[Len(out)] = "\n"
        /\ LET line == OutLine(1)
           IN /\ Len(line) >= 3
              /\ line[1] = "No Rust files with "
              /\ IsDecimal(SubSeq(line, 2, Len(line) - 1), max_size)
              /\ line[Len(line)] = "+ LOC found."

\* main was called without an argument, read a file, and nothing qualified
C6_Witness ==
    /\ pc = "done"
    /\ large_files = <<>>
    /\ arg = NoArg
    /\ ReadOk # {}

----------------------------------------------------------------------------
(* C7 *)

\* C7: when the result list has N > 0 entries, main prints the header with the
\* threshold and N, a blank line, and N entry lines in the list's order, each
\* with the count right-aligned in a field of at least 5 characters, then
\* " lines  " and the path relative to the anchor; the empty-case line is not
\* printed.
C7_Report ==
    (pc = "done" /\ large_files # <<>>) =>
        /\ NumOutLines = Len(large_files) + 2
        /\ out[Len(out)] = "\n"
        /\ LET h == OutLine(1)
           IN \E m \in 3..Len(h) :
                  /\ h[1] = "Rust files with "
                  /\ IsDecimal(SubSeq(h, 2, m - 1), max_size)
                  /\ h[m] = "+ LOC ("
                  /\ IsDecimal(SubSeq(h, m + 1, Len(h) - 1), Len(large_files))
                  /\ h[Len(h)] = " files):"
        /\ OutLine(2) = <<>>
        /\ \A k \in 1..Len(large_files) : EntryShown(OutLine(k + 2), large_files[k])
        /\ "No Rust files with " \notin Range(out)

\* a report of at least two entries, one of them in a subdirectory
C7_Witness ==
    /\ pc = "done"
    /\ Len(large_files) >= 2
    /\ \E e \in Entries : Len(e.path) >= 2

----------------------------------------------------------------------------
(* C8 *)

\* C8 as stated: of two entries with the same line count, the one whose full
\* path string is lexicographically smaller is printed first.
C8_StringOrder ==
    pc = "done" =>
        \A k, l \in 1..Len(large_files) :
            (k < l /\ large_files[k].loc = large_files[l].loc) =>
                StrLess(AbsStr(root \o large_files[k].path),
                        AbsStr(root \o large_files[l].path))

\* C8 amended: entries with the same line count are printed in enumeration
\* order, and that order is the order of the paths' component sequences
\* (component by component; equivalently, of the path strings with the
\* separator ordered before every other character).
C8_ComponentOrder ==
    pc = "done" =>
        \A k, l \in 1..Len(large_files) :
            (k < l /\ large_files[k].loc = large_files[l].loc) =>
                /\ PositionOf(root \o large_files[k].path)
                       < PositionOf(root \o large_files[l].path)
                /\ LessSepFirst(AbsStr(root \o large_files[k].path),
                                AbsStr(root \o large_files[l].path))

\* two entries with the same line count whose path strings are in the other
\* order
C8_Witness ==
    /\ pc = "done"
    /\ \E k, l \in 1..Len(large_files) :
           /\ k < l
           /\ large_files[k].loc = large_files[l].loc
           /\ StrLess(AbsStr(root \o large_files[l].path),
                      AbsStr(root \o large_files[k].path))

----------------------------------------------------------------------------
(* C10 *)

\* C10: the directory rules see the components of the anchor too: when the
\* anchor or one of its ancestors is named "target" or "test", no file is read,
\* none is listed, and main prints the empty-case report.
C10_AnchorExcluded ==
    (HasComponent(root, target) \/ HasComponent(root, test)) =>
        /\ reads = {}
        /\ large_files = <<>>
        /\ pc = "done" =>
               /\ NumOutLines = 1
               /\ out[1] = "No Rust files with "

\* under an anchor below a directory named target, a readable file that
\* matches no rule by its relative path and is at or above the threshold
C10_Witness ==
    /\ pc = "done"
    /\ HasComponent(root, target)
    /\ \E p \in DOMAIN fs :
           /\ EndsWith(Name(p), dot_rs)
           /\ ~MatchesRule(p)
           /\ ~Contains(Name(p), test_rs)
           /\ fs[p].exc = NoError
           /\ LineCount(fs[p].raw) >= max_size

----------------------------------------------------------------------------
(* C9 *)

\* C9 as stated: the line count of every content is its number of newline
\* characters, plus one when the content is non-empty and does not end with a
\* newline; an empty file has 0 lines and is left out for every threshold >= 1.
C9_NewlineSemantics == CountedAs(NewlineCount)

\* C9 amended: the line count of every content is its number of line
\* boundaries, where a boundary is "\n", "\r\n" (counted once), a lone "\r" or
\* another splitlines separator such as "\f", plus one when the content is
\* non-empty and does not end with a boundary; an empty file has 0 lines and is
\* left out for every threshold >= 1.
C9_BoundarySemantics == CountedAs(BoundaryCount)

\* a content with a carriage return inside and an unterminated last line was
\* read and listed with 2 lines
C9_Witness ==
    /\ pc = "done"
    /\ \E p \in ReadOk :
           LET raw == fs[RelativeTo(p, root)].raw
           IN /\ raw = <<"a", "\r", "a">>
              /\ \E k \in EntriesOf(RelativeTo(p, root)) : large_files[k].loc = 2

====
